---- MODULE Spec2Model ----
(***************************************************************************)
(* Model of htmx-snippets.py: the per-field save endpoint htmx_field_save, *)
(* the form-class lookup lookup_form_class and the widget decoration done  *)
(* by BaseModelForm.__init__.                                              *)
(*                                                                         *)
(* Three specifications share the definitions:                             *)
(*   Spec      one POST request, any header / body / target, handled step  *)
(*             by step;                                                    *)
(*   ConcSpec  two requests for the same record, as the decorated form     *)
(*             sends them, interleaved at every step;                      *)
(*   FormSpec  BaseModelForm.__init__ over a form's fields.                *)
(***************************************************************************)
EXTENDS Naturals, Sequences, FiniteSets

VARIABLES
    store,       \* the table of the model: pk -> [column -> stored value]
    formPath,    \* the configured dotted path of the form-class override
    request,     \* per request: the request being handled (or NoRequest)
    pc,          \* per request: the handler's position
    instance,    \* per request: the in-memory record read at line 86
    field_name,  \* per request: local field_name
    BaseFormClass, \* per request: local BaseFormClass
    form,        \* per request: local form
    bound,       \* per request: local bound (the field handle)
    css_class,   \* per request: local css_class
    status_code, \* per request: local status_code
    response,    \* per request: what the handler returned (or raised)
    writeOrder,  \* the requests that wrote a column, in the order of the writes
    fields,      \* BaseModelForm: self.fields, a sequence of fields
    formInst,    \* BaseModelForm: pk of self.instance (None when unsaved)
    save_url,    \* BaseModelForm.__init__: local save_url
    fpc          \* BaseModelForm.__init__: position (index of the next field)

handlerVars == <<store, formPath, request, pc, instance, field_name,
                 BaseFormClass, form, bound, css_class, status_code,
                 response, writeOrder>>
formVars == <<fields, formInst, save_url, fpc>>
vars == <<handlerVars, formVars>>

----------------------------------------------------------------------------
(* Bounds *)

MaxPostLen == 3      \* longest POST body (number of keys) of Spec
MaxFields == 2       \* most model fields of a decorated form in FormSpec

----------------------------------------------------------------------------
(* Values *)

None == "<None>"          \* Python's None
NoRequest == [app_label |-> None, model_name |-> None, object_id |-> 0,
              header |-> None, POST |-> <<>>]

\* The model class the endpoint is exercised with: two required text columns.
Columns == {"title", "body"}
\* The installed model: apps.get_model knows this (app_label, model_name) only.
InstalledApp == "demo_fields"
InstalledModel == "demorecord"
\* Primary keys: 1 is stored, 2 is not.
StoredPk == 1
MissingPk == 2

\* An exclusion set that forgets the CSRF token.
excludedWithoutCsrf == {"app_label", "model_name", "object_id"}

\* excluded, line 91
excluded == {"csrfmiddlewaretoken", "app_label", "model_name", "object_id"}

\* The fields BaseModelForm declares (lines 11-13) and which of them are required.
DeclaredFields == {"app_label", "model_name", "object_id"}
RequiredDeclaredFields == {"app_label", "model_name"}

\* Python truthiness of a header / key value: None and "" are false.
Falsy(x) == x = None \/ x = ""

NoInstance == [c \in Columns |-> None]
NoForm == [cls |-> None, fields |-> {}, data |-> None]
NoBound == [data |-> None, name |-> None, value |-> None, errors |-> {}]
EmptyBody == [rendered |-> FALSE, field |-> NoBound, css_class |-> None,
              errors |-> {}, help_text |-> None]
NoResponse == [status |-> 0, exc |-> None, body |-> EmptyBody]

----------------------------------------------------------------------------
(* request.POST: a sequence of <<key, value>> items with distinct keys, in *)
(* submission order.                                                       *)

PostKeys(post) == {post[i][1] : i \in 1..Len(post)}

\* request.POST.get(key): the submitted value, None when the key is absent.
PostGet(post, key) ==
    IF key \in PostKeys(post)
    THEN post[CHOOSE i \in 1..Len(post) : post[i][1] = key][2]
    ELSE None

\* next((k for k in request.POST if k not in excluded), None), line 92
FirstNotExcluded(post) ==
    LET idx == {i \in 1..Len(post) : post[i][1] \notin excluded}
    IN  IF idx = {} THEN None
        ELSE post[CHOOSE i \in idx : \A j \in idx : i <= j][1]

----------------------------------------------------------------------------
(* lookup_form_class, lines 70-80.  A dotted path is the sequence of its   *)
(* components: "myapp.forms.MyForm" is <<"myapp", "forms", "MyForm">>.     *)

\* The import system the lookup runs against.
ImportableModules == {<<"myapp", "forms">>}
BrokenModules == {<<"broken", "forms">>}      \* raise ImportError when imported
ModuleAttrs(mod) == IF mod = <<"myapp", "forms">> THEN {"MyForm"} ELSE {}

\* The body of the try block, lines 76-78: the class found, or the exception
\* raised on the way.
TryLookup(path) ==
    IF Len(path) < 2
    THEN [raised |-> "ValueError", cls |-> None]               \* line 76
    ELSE LET module_path == SubSeq(path, 1, Len(path) - 1)
             class_name == path[Len(path)]
         IN  IF module_path \in BrokenModules
             THEN [raised |-> "ImportError", cls |-> None]     \* line 77
             ELSE IF module_path \notin ImportableModules
             THEN [raised |-> "ModuleNotFoundError", cls |-> None]
             ELSE IF class_name \notin ModuleAttrs(module_path)
             THEN [raised |-> "AttributeError", cls |-> None]  \* line 78
             ELSE [raised |-> None, cls |-> class_name]

\* A handler that catches ImportError (and its subclass) only.
CaughtImportErrorOnly(exc) == exc \in {"ImportError", "ModuleNotFoundError"}

\* except Exception, line 79: every exception the try block can raise.
Caught(exc) ==
    exc \in {"ValueError", "ImportError", "ModuleNotFoundError", "AttributeError"}

lookup_form_class(path) ==
    LET got == TryLookup(path)
    IN  IF got.raised = None THEN got
        ELSE IF Caught(got.raised)
        THEN [raised |-> None, cls |-> "BaseModelForm"]        \* line 80
        ELSE got

\* get_custom_modelform(app_label, Model), called at line 97: the class the
\* configured override path names, the default when none is configured.
get_custom_modelform(path) ==
    IF path = <<>> THEN [raised |-> None, cls |-> "BaseModelForm"]
    ELSE lookup_form_class(path)

----------------------------------------------------------------------------
(* The single-field form, lines 100-111 *)

\* modelform_factory(Model, form=BaseFormClass, fields=[field_name]): the form
\* has the named model field and the fields BaseModelForm declares.  A name
\* that is neither a model field nor a declared field raises FieldError.
FormFields(name) == ({name} \cap Columns) \cup DeclaredFields
FactoryRaises(name) == name \notin Columns \cup DeclaredFields

\* The errors of one field of the form bound to the POST data: every model
\* column and the declared app_label and model_name are required.
FieldErrors(name, post) ==
    IF name \in Columns \cup RequiredDeclaredFields /\ Falsy(PostGet(post, name))
    THEN {"This field is required."}
    ELSE {}

\* A validation that looks at the model field of the form only.
IsValidModelFieldOnly(frm, post) ==
    \A f \in frm.fields \cap Columns : FieldErrors(f, post) = {}

\* form.is_valid(), line 111
is_valid(frm, post) == \A f \in frm.fields : FieldErrors(f, post) = {}

\* form[field_name] of the form bound to request.POST, line 108
BoundToPost(name, post) ==
    [data |-> "POST", name |-> name, value |-> PostGet(post, name),
     errors |-> FieldErrors(name, post)]

\* form[field_name] of the form rebuilt on the saved instance, lines 117-118
BoundToInstance(name, obj) ==
    [data |-> "instance", name |-> name,
     value |-> IF name \in Columns THEN obj[name] ELSE None, errors |-> {}]

\* What is_valid leaves in the in-memory instance (construct_instance): the
\* cleaned value of each model field of the form that has no error.
ConstructInstance(inst, frm, post) ==
    [c \in Columns |->
        IF c \in frm.fields /\ FieldErrors(c, post) = {}
        THEN PostGet(post, c) ELSE inst[c]]

\* A full-row write: every column of the in-memory instance.
AllColumns(name) == Columns

\* obj.save(update_fields=[field_name]), line 115: the columns written.
update_fields(name) == {name}

\* A write of the whole in-memory instance.
WriteWholeRow(row, obj, cols) == obj

\* No write at all: the row is left as it is.
KeepRow(row, obj, cols) == row

\* The row after writing the columns cols of the in-memory instance obj.
WriteColumns(row, obj, cols) ==
    [c \in Columns |-> IF c \in cols THEN obj[c] ELSE row[c]]

\* HttpResponse(html), line 136: status_code is not passed, the response has
\* HttpResponse's default status.
RenderedStatus(code) == 200

----------------------------------------------------------------------------
(* The requests *)

Reqs == {1, 2}

\* Submitted values of a model column: empty (refused: the column is required)
\* or an accepted value; "A" is what is stored at the start.
FieldValues == {"", "B"}
Stored == "A"

\* Items a POST body can hold: the CSRF token, the hidden metadata of the form
\* (lines 11-13), the columns.
PostItems ==
    {<<k, "x">> : k \in {"csrfmiddlewaretoken"} \cup DeclaredFields}
        \cup (Columns \X FieldValues)

RECURSIVE PostsOfLen(_)
PostsOfLen(n) ==
    IF n = 0 THEN {<<>>}
    ELSE {Append(p, kv) : p \in PostsOfLen(n - 1),
                          kv \in PostItems} \ {<<>>}

DistinctKeys(post) == Cardinality(PostKeys(post)) = Len(post)

BoundedPosts ==
    {p \in UNION {PostsOfLen(n) : n \in 0..MaxPostLen} : DistinctKeys(p)}

\* The body the decorated form sends (hx-include="closest form": the CSRF
\* token, the hidden metadata and every field of the form).
FormPost(title, body) ==
    <<(<<"csrfmiddlewaretoken", "x">>), (<<"app_label", "x">>),
      (<<"model_name", "x">>), (<<"object_id", "x">>),
      (<<"title", title>>), (<<"body", body>>)>>

\* The POST bodies of Spec: every body of at most MaxPostLen keys, and the
\* bodies of the decorated form.
Posts == BoundedPosts \cup {FormPost(t, b) : t \in FieldValues, b \in FieldValues}

\* HX-Trigger-Name: absent, empty, a column, a declared hidden field, or a name
\* the model does not have.
Headers == {None, "", "title", "body", "app_label", "bogus"}

\* Any POST request to the endpoint.
Requests ==
    [app_label : {InstalledApp, "noapp"}, model_name : {InstalledModel, "nomodel"},
     object_id : {StoredPk, MissingPk}, header : Headers, POST : Posts]

\* The requests the decorated form of the stored record sends: the header names
\* the edited column; request r submits values of its own.
ConcValues(r) == IF r = 1 THEN {"", "B"} ELSE {"", "C"}
FormRequests(r) ==
    {[app_label |-> InstalledApp, model_name |-> InstalledModel,
      object_id |-> StoredPk, header |-> h, POST |-> FormPost(t, b)] :
        h \in Columns, t \in ConcValues(r), b \in ConcValues(r)}

\* The override paths a deployment can configure; <<>> is none configured.
FormPaths ==
    {<<>>, <<"MyForm">>, <<"nomodule", "forms", "MyForm">>,
     <<"broken", "forms", "MyForm">>, <<"myapp", "forms", "Missing">>,
     <<"myapp", "forms", "MyForm">>}

----------------------------------------------------------------------------
(* htmx_field_save, lines 84-136, one action per step *)

Raise(r, status, exc) ==
    /\ response' = [response EXCEPT ![r] =
                        [status |-> status, exc |-> exc, body |-> EmptyBody]]
    /\ pc' = [pc EXCEPT ![r] = "done"]

\* A POST request arrives (require_POST, line 83, lets it through).
Receive(r, inputs) ==
    /\ pc[r] = "idle"
    /\ \E req \in inputs : request' = [request EXCEPT ![r] = req]
    /\ pc' = [pc EXCEPT ![r] = "get_model"]
    /\ UNCHANGED <<store, formPath, instance, field_name, BaseFormClass, form,
                   bound, css_class, status_code, response, writeOrder>>
    /\ UNCHANGED formVars

\* Model = apps.get_model(app_label, model_name), line 85: LookupError when no
\* such app or model is installed.
GetModel(r) ==
    /\ pc[r] = "get_model"
    /\ IF request[r].app_label = InstalledApp
          /\ request[r].model_name = InstalledModel
       THEN /\ pc' = [pc EXCEPT ![r] = "get_object"]
            /\ UNCHANGED response
       ELSE Raise(r, 500, "LookupError")
    /\ UNCHANGED <<store, formPath, request, instance, field_name, BaseFormClass,
                   form, bound, css_class, status_code, writeOrder>>
    /\ UNCHANGED formVars

\* instance = get_object_or_404(Model, pk=object_id), line 86
GetObject(r) ==
    /\ pc[r] = "get_object"
    /\ IF request[r].object_id \in DOMAIN store
       THEN /\ instance' = [instance EXCEPT ![r] = store[request[r].object_id]]
            /\ pc' = [pc EXCEPT ![r] = "field_name"]
            /\ UNCHANGED response
       ELSE /\ Raise(r, 404, "Http404")
            /\ UNCHANGED instance
    /\ UNCHANGED <<store, formPath, request, field_name, BaseFormClass, form,
                   bound, css_class, status_code, writeOrder>>
    /\ UNCHANGED formVars

\* A field name inferred from the POST keys first, the header second.
PostKeyFirst(req) ==
    IF FirstNotExcluded(req.POST) # None THEN FirstNotExcluded(req.POST)
    ELSE req.header

\* The value of field_name after lines 89-92.
DetermineFieldName(req) ==
    IF ~Falsy(req.header) THEN req.header ELSE FirstNotExcluded(req.POST)

\* Lines 89-94
DetermineField(r) ==
    /\ pc[r] = "field_name"
    /\ LET name == DetermineFieldName(request[r])
       IN  /\ field_name' = [field_name EXCEPT ![r] = name]
           /\ IF Falsy(name)
              THEN /\ response' = [response EXCEPT ![r] =            \* line 94
                          [status |-> 400, exc |-> None, body |-> EmptyBody]]
                   /\ pc' = [pc EXCEPT ![r] = "done"]
              ELSE /\ pc' = [pc EXCEPT ![r] = "form_class"]
                   /\ UNCHANGED response
    /\ UNCHANGED <<store, formPath, request, instance, BaseFormClass, form,
                   bound, css_class, status_code, writeOrder>>
    /\ UNCHANGED formVars

\* BaseFormClass = get_custom_modelform(app_label, Model), line 97
SelectFormClass(r) ==
    /\ pc[r] = "form_class"
    /\ LET got == get_custom_modelform(formPath)
       IN  IF got.raised = None
           THEN /\ BaseFormClass' = [BaseFormClass EXCEPT ![r] = got.cls]
                /\ pc' = [pc EXCEPT ![r] = "build_form"]
                /\ UNCHANGED response
           ELSE /\ Raise(r, 500, got.raised)
                /\ UNCHANGED BaseFormClass
    /\ UNCHANGED <<store, formPath, request, instance, field_name, form, bound,
                   css_class, status_code, writeOrder>>
    /\ UNCHANGED formVars

\* Lines 100-108: the single-field form class, the form bound to request.POST
\* and its field handle.
BuildForm(r) ==
    /\ pc[r] = "build_form"
    /\ IF FactoryRaises(field_name[r])
       THEN /\ Raise(r, 500, "FieldError")
            /\ UNCHANGED <<form, bound>>
       ELSE /\ form' = [form EXCEPT ![r] =
                           [cls |-> BaseFormClass[r],
                            fields |-> FormFields(field_name[r]),
                            data |-> "POST"]]
            /\ bound' = [bound EXCEPT ![r] =
                            BoundToPost(field_name[r], request[r].POST)]
            /\ pc' = [pc EXCEPT ![r] = "validate"]
            /\ UNCHANGED response
    /\ UNCHANGED <<store, formPath, request, instance, field_name, BaseFormClass,
                   css_class, status_code, writeOrder>>
    /\ UNCHANGED formVars

\* if form.is_valid(), line 111, and the else branch, lines 121-123
Validate(r) ==
    /\ pc[r] = "validate"
    /\ instance' = [instance EXCEPT ![r] =
                       ConstructInstance(instance[r], form[r], request[r].POST)]
    /\ IF is_valid(form[r], request[r].POST)
       THEN /\ pc' = [pc EXCEPT ![r] = "save"]
            /\ UNCHANGED <<css_class, status_code>>
       ELSE /\ status_code' = [status_code EXCEPT ![r] = 400]
            /\ css_class' = [css_class EXCEPT ![r] = "invalid-value"]
            /\ pc' = [pc EXCEPT ![r] = "render"]
    /\ UNCHANGED <<store, formPath, request, field_name, BaseFormClass, form,
                   bound, response, writeOrder>>
    /\ UNCHANGED formVars

\* obj = form.save(commit=False); obj.save(update_fields=[field_name]), lines
\* 113-115.  save raises ValueError for a name that is no column of the model.
Save(r) ==
    /\ pc[r] = "save"
    /\ IF update_fields(field_name[r]) \subseteq Columns
       THEN /\ store' = [store EXCEPT ![request[r].object_id] =
                           WriteColumns(@, instance[r], update_fields(field_name[r]))]
            /\ writeOrder' = Append(writeOrder, r)
            /\ pc' = [pc EXCEPT ![r] = "rebind"]
            /\ UNCHANGED response
       ELSE /\ Raise(r, 500, "ValueError")
            /\ UNCHANGED <<store, writeOrder>>
    /\ UNCHANGED <<formPath, request, instance, field_name, BaseFormClass, form,
                   bound, css_class, status_code>>
    /\ UNCHANGED formVars

\* Lines 117-120
Rebind(r) ==
    /\ pc[r] = "rebind"
    /\ form' = [form EXCEPT ![r] = [@ EXCEPT !.data = "instance"]]
    /\ bound' = [bound EXCEPT ![r] = BoundToInstance(field_name[r], instance[r])]
    /\ css_class' = [css_class EXCEPT ![r] = "valid-value"]
    /\ status_code' = [status_code EXCEPT ![r] = 200]
    /\ pc' = [pc EXCEPT ![r] = "render"]
    /\ UNCHANGED <<store, formPath, request, instance, field_name, BaseFormClass,
                   response, writeOrder>>
    /\ UNCHANGED formVars

\* render_to_string(...) and return HttpResponse(html), lines 126-136
Render(r) ==
    /\ pc[r] = "render"
    /\ response' = [response EXCEPT ![r] =
           [status |-> RenderedStatus(status_code[r]), exc |-> None,
            body |-> [rendered |-> TRUE, field |-> bound[r],
                      css_class |-> css_class[r], errors |-> bound[r].errors,
                      help_text |-> "help"]]]
    /\ pc' = [pc EXCEPT ![r] = "done"]
    /\ UNCHANGED <<store, formPath, request, instance, field_name, BaseFormClass,
                   form, bound, css_class, status_code, writeOrder>>
    /\ UNCHANGED formVars

----------------------------------------------------------------------------
(* BaseModelForm.__init__, lines 15-57 *)

\* The widget classes of django.forms and the base class of each.
WidgetBase ==
    [Widget |-> None, Input |-> "Widget", TextInput |-> "Input",
     NumberInput |-> "Input", HiddenInput |-> "Input",
     MultipleHiddenInput |-> "HiddenInput", CheckboxInput |-> "Input",
     Textarea |-> "Widget", ChoiceWidget |-> "Widget", Select |-> "ChoiceWidget",
     NullBooleanSelect |-> "Select", SelectMultiple |-> "Select",
     RadioSelect |-> "ChoiceWidget"]

\* The widgets a form field can have.
FieldWidgets ==
    {"TextInput", "NumberInput", "HiddenInput", "MultipleHiddenInput",
     "CheckboxInput", "Textarea", "Select", "NullBooleanSelect",
     "SelectMultiple", "RadioSelect"}

RECURSIVE isinstance(_, _)
isinstance(widget, cls) ==
    IF widget = None THEN FALSE
    ELSE IF widget = cls THEN TRUE
    ELSE isinstance(WidgetBase[widget], cls)

\* A trigger choice that has no case for Textarea.
TriggerWithoutBlur(widget) ==
    IF isinstance(widget, "Select") THEN "change"
    ELSE IF isinstance(widget, "CheckboxInput") THEN "change"
    ELSE "change delay:500ms"

\* Lines 39-46
trigger(widget) ==
    IF isinstance(widget, "Select") THEN "change"
    ELSE IF isinstance(widget, "CheckboxInput") THEN "change"
    ELSE IF isinstance(widget, "Textarea") THEN "blur"
    ELSE "change delay:500ms"

\* str(getattr(self.instance, "pk", "") or ""), line 22
ObjectIdInitial(pk) == IF pk = None THEN "" ELSE pk

\* reverse("common:save", kwargs=...), lines 24-31 and 146: the URL as the
\* sequence of its path segments.
SaveUrl(app_label, model_name, object_id) ==
    <<app_label, model_name, IF object_id = "" THEN "0" ELSE object_id, "save">>

\* The attributes of lines 49-56 for the field called name; a value is the
\* sequence of the pieces the string is put together from.
HxAttrs(name, url, widget) ==
    [a \in {"hx-post", "hx-trigger", "hx-target", "hx-swap", "hx-include",
            "hx-indicator"} |->
        CASE a = "hx-post" -> url
          [] a = "hx-trigger" -> <<trigger(widget)>>
          [] a = "hx-target" -> <<"#field-", name, "-container">>
          [] a = "hx-swap" -> <<"outerHTML">>
          [] a = "hx-include" -> <<"closest form">>
          [] a = "hx-indicator" -> <<".saving-indicator">>]

\* widget.attrs.update(new), line 48
AttrsUpdate(attrs, new) ==
    [a \in DOMAIN attrs \cup DOMAIN new |->
        IF a \in DOMAIN new THEN new[a] ELSE attrs[a]]

\* The names of a form's model fields, in order.
FieldNames == <<"title", "body", "notes", "done">>

\* The attributes a widget has before __init__ decorates it.
InitialAttrs == {<<>>, [class |-> <<"form-control">>]}

\* The three hidden fields BaseModelForm declares, lines 11-13.
HiddenDeclared ==
    <<[name |-> "app_label", widget |-> "HiddenInput", attrs |-> <<>>,
       initial |-> None],
      [name |-> "model_name", widget |-> "HiddenInput", attrs |-> <<>>,
       initial |-> None],
      [name |-> "object_id", widget |-> "HiddenInput", attrs |-> <<>>,
       initial |-> None]>>

\* self.fields after super().__init__, line 17: n model fields, then the
\* declared hidden fields.
ModelFieldSeqs(n) == [1..n -> [widget : FieldWidgets, attrs : InitialAttrs]]
FormsOf(n) ==
    {[i \in 1..(n + 3) |->
        IF i <= n
        THEN [name |-> FieldNames[i], widget |-> fs[i].widget,
              attrs |-> fs[i].attrs, initial |-> None]
        ELSE HiddenDeclared[i - n]] : fs \in ModelFieldSeqs(n)}

HiddenInitial(name, pk) ==
    CASE name = "app_label" -> InstalledApp          \* line 20
      [] name = "model_name" -> InstalledModel       \* line 21
      [] name = "object_id" -> ObjectIdInitial(pk)   \* line 22
      [] OTHER -> None

\* Lines 16-31: the initial values of the hidden metadata and save_url.
SetInitials ==
    /\ fpc = 0
    /\ fields # <<>>
    /\ fields' = [i \in 1..Len(fields) |->
                    IF fields[i].name \in DeclaredFields
                    THEN [fields[i] EXCEPT
                             !.initial = HiddenInitial(fields[i].name, formInst)]
                    ELSE fields[i]]
    /\ save_url' = SaveUrl(HiddenInitial("app_label", formInst),
                           HiddenInitial("model_name", formInst),
                           HiddenInitial("object_id", formInst))
    /\ fpc' = 1
    /\ UNCHANGED formInst
    /\ UNCHANGED handlerVars

\* One iteration of the loop of lines 33-57.
DecorateField ==
    /\ fpc \in 1..Len(fields)
    /\ LET name == fields[fpc].name
           widget == fields[fpc].widget
       IN  IF isinstance(widget, "HiddenInput")
           THEN UNCHANGED fields                                   \* line 36
           ELSE fields' = [fields EXCEPT ![fpc].attrs =
                              AttrsUpdate(@, HxAttrs(name, save_url, widget))]
    /\ fpc' = fpc + 1
    /\ UNCHANGED <<formInst, save_url>>
    /\ UNCHANGED handlerVars

HandlerIdle ==
    /\ store = [pk \in {StoredPk} |-> [c \in Columns |-> Stored]]
    /\ request = [r \in Reqs |-> NoRequest]
    /\ pc = [r \in Reqs |-> "idle"]
    /\ instance = [r \in Reqs |-> NoInstance]
    /\ field_name = [r \in Reqs |-> None]
    /\ BaseFormClass = [r \in Reqs |-> None]
    /\ form = [r \in Reqs |-> NoForm]
    /\ bound = [r \in Reqs |-> NoBound]
    /\ css_class = [r \in Reqs |-> None]
    /\ status_code = [r \in Reqs |-> 0]
    /\ response = [r \in Reqs |-> NoResponse]
    /\ writeOrder = <<>>

FormIdle ==
    /\ fields = <<>>
    /\ formInst = None
    /\ save_url = <<>>
    /\ fpc = 0

\* One request, of any shape.
Init == HandlerIdle /\ formPath \in FormPaths /\ FormIdle
Next ==
    \/ Receive(1, Requests)
    \/ GetModel(1)
    \/ GetObject(1)
    \/ DetermineField(1)
    \/ SelectFormClass(1)
    \/ BuildForm(1)
    \/ Validate(1)
    \/ Save(1)
    \/ Rebind(1)
    \/ Render(1)
Spec == Init /\ [][Next]_vars

\* Two requests of the decorated form, interleaved.
ConcNext ==
    \E r \in Reqs :
        \/ Receive(r, FormRequests(r))
        \/ GetModel(r)
        \/ GetObject(r)
        \/ DetermineField(r)
        \/ SelectFormClass(r)
        \/ BuildForm(r)
        \/ Validate(r)
        \/ Save(r)
        \/ Rebind(r)
        \/ Render(r)
ConcSpec == Init /\ [][ConcNext]_vars

\* BaseModelForm.__init__ on a form of at most MaxFields model fields, bound to
\* a saved or an unsaved instance.
FormInit ==
    /\ HandlerIdle
    /\ formPath = <<>>
    /\ fields \in UNION {FormsOf(n) : n \in 0..MaxFields}
    /\ formInst \in {None, "1"}
    /\ save_url = <<>>
    /\ fpc = 0
FormNext == SetInitials \/ DecorateField
FormSpec == FormInit /\ [][FormNext]_vars

----------------------------------------------------------------------------
(* Properties of htmx_field_save *)

InitialRow == [c \in Columns |-> Stored]
StoreUntouched == store = [pk \in {StoredPk} |-> InitialRow]
RecordExists(req) ==
    /\ req.app_label = "demo_fields"
    /\ req.model_name = "demorecord"
    /\ req.object_id = 1
\* The request sent a value for its field and for the two required hidden
\* fields, and the value is not empty: the single-field form validates.
Validates(r) ==
    /\ {"app_label", "model_name"} \subseteq PostKeys(request[r].POST)
    /\ field_name[r] \in {"title", "body"}
    /\ PostGet(request[r].POST, field_name[r]) \notin {None, ""}
\* Some field of the request's single-field form is refused.
FailsValidation(r) ==
    /\ form[r].cls # None
    /\ \/ ~({"app_label", "model_name"} \subseteq PostKeys(request[r].POST))
       \/ /\ field_name[r] \in {"title", "body"}
          /\ PostGet(request[r].POST, field_name[r]) \in {None, ""}
Submitted(r) == PostGet(request[r].POST, field_name[r])

\* C1: a step of a request whose single-field form validates changes no stored
\* column of the record other than the request's field_name, whatever the POST
\* body holds for the other columns.
C1_OnlyTargetColumnWritten ==
    [][\A r \in Reqs :
        (pc[r] # pc'[r] /\ Validates(r)) =>
            \A c \in Columns \ {field_name[r]} :
                store'[StoredPk][c] = store[StoredPk][c]]_vars

\* C1 witness: a validated request has written its column, and its POST body
\* holds, for the other column, a value that differs from the stored one.
C1_Witness ==
    \E r \in Reqs : \E c \in Columns \ {field_name[r]} :
        /\ pc[r] = "rebind"
        /\ Validates(r)
        /\ store[StoredPk][field_name[r]] = Submitted(r)
        /\ PostGet(request[r].POST, c) # store[StoredPk][c]

\* C2: when the single-field form fails validation, nothing is written to the
\* store and the rendered field handle is the one bound to the POST data: the
\* submitted value with its errors.
C2_FailedValidationWritesNothing ==
    (pc[1] = "done" /\ FailsValidation(1)) =>
        /\ StoreUntouched
        /\ response[1].body.rendered
        /\ response[1].body.field.data = "POST"
        /\ response[1].body.field.value = Submitted(1)
        /\ response[1].body.css_class = "invalid-value"
        /\ response[1].body.errors =
               IF /\ field_name[1] \in {"title", "body", "app_label", "model_name"}
                  /\ Submitted(1) \in {None, ""}
               THEN {"This field is required."} ELSE {}

\* C2 witness: an empty value submitted for the stored title "A" was refused and
\* rendered.
C2_Witness ==
    /\ pc[1] = "done"
    /\ FailsValidation(1)
    /\ field_name[1] = "title"
    /\ Submitted(1) = ""
    /\ response[1].body.field.value = ""
    /\ store[StoredPk]["title"] = "A"

\* C3: a request that reaches validation is answered 200 exactly when the
\* form validated and 400 exactly when it did not, with the rendered fragment
\* as the body in both cases.
C3_StatusFollowsValidation ==
    (pc[1] = "done" /\ form[1].cls # None) =>
        /\ response[1].status = 200 <=> ~FailsValidation(1)
        /\ response[1].status = 400 <=> FailsValidation(1)
        /\ response[1].body.rendered

\* C4: two validated requests for two different columns of the record, run
\* under any interleaving, leave each request's value in its own column.
C4_BothColumnsKept ==
    (/\ pc[1] = "done" /\ pc[2] = "done"
     /\ Validates(1) /\ Validates(2)
     /\ field_name[1] # field_name[2]) =>
        /\ store[StoredPk][field_name[1]] = Submitted(1)
        /\ store[StoredPk][field_name[2]] = Submitted(2)

\* C4 witness: request 2 read the record before request 1 wrote its column
\* (its in-memory copy is stale) and wrote its own column after it.
C4_Witness ==
    /\ pc[1] = "done" /\ pc[2] = "done"
    /\ Validates(1) /\ Validates(2)
    /\ field_name[1] # field_name[2]
    /\ writeOrder = <<1, 2>>
    /\ instance[2][field_name[1]] = Stored
    /\ store[StoredPk][field_name[1]] = Submitted(1)
    /\ store[StoredPk][field_name[2]] = Submitted(2)

\* C5 as stated: with a trigger-name header supplied, the field is the one the
\* header names, never one inferred from the POST keys.
C5_HeaderAlwaysHonoured ==
    (pc[1] \in {"form_class", "build_form", "validate", "save", "rebind", "render"}
     /\ request[1].header # None) =>
        field_name[1] = request[1].header

\* The first key of the POST body, in submission order, outside the exclusion
\* set.
IsFirstFieldKey(post, name) ==
    \E i \in 1..Len(post) :
        /\ post[i][1] = name
        /\ name \notin {"csrfmiddlewaretoken", "app_label", "model_name", "object_id"}
        /\ \A j \in 1..(i - 1) :
              post[j][1] \in {"csrfmiddlewaretoken", "app_label", "model_name",
                              "object_id"}

\* C5 amended: with a non-empty trigger-name header the field is the one the
\* header names; with the header absent or empty it is the first POST key
\* outside the exclusion set.
C5_NonEmptyHeaderHonoured ==
    (pc[1] \in {"form_class", "build_form", "validate", "save", "rebind", "render"}
     \/ (pc[1] = "done" /\ field_name[1] \notin {None, ""})) =>
        /\ request[1].header \notin {None, ""} => field_name[1] = request[1].header
        /\ request[1].header \in {None, ""} =>
               IsFirstFieldKey(request[1].POST, field_name[1])

\* C5 witness: the header names body while title is the first field key of the
\* POST body, and body is the column that was validated and written.
C5_Witness ==
    /\ pc[1] = "done"
    /\ request[1].header = "body"
    /\ IsFirstFieldKey(request[1].POST, "title")
    /\ field_name[1] = "body"
    /\ response[1].body.rendered
    /\ store[StoredPk]["body"] = PostGet(request[1].POST, "body")
    /\ store[StoredPk]["title"] = "A"
    /\ PostGet(request[1].POST, "title") # "A"

\* C6: for an existing record, no header and a POST body of exclusion-set
\* keys only ends with status 400 and an empty body; no form is built, nothing
\* is validated, written or rendered.
C6_NoFieldNameIs400 ==
    (/\ pc[1] = "done"
     /\ RecordExists(request[1])
     /\ request[1].header = None
     /\ PostKeys(request[1].POST) \subseteq
            {"csrfmiddlewaretoken", "app_label", "model_name", "object_id"}) =>
        /\ response[1].status = 400
        /\ response[1].exc = None
        /\ ~response[1].body.rendered
        /\ form[1] = NoForm
        /\ bound[1] = NoBound
        /\ StoreUntouched

\* C6 witness: a body of the CSRF token and hidden metadata only was answered.
C6_Witness ==
    /\ pc[1] = "done"
    /\ RecordExists(request[1])
    /\ request[1].header = None
    /\ PostKeys(request[1].POST) = {"csrfmiddlewaretoken", "app_label", "model_name"}
    /\ response[1].status = 400

\* C7: a request whose (app_label, model_name, object_id) matches no stored
\* record ends with 404, whatever its header and body, and writes nothing.
C7_MissingRecordIs404 ==
    (pc[1] = "done" /\ ~RecordExists(request[1])) =>
        /\ response[1].status = 404
        /\ StoreUntouched

\* An override path that cannot be resolved: no dot, a module that is missing
\* or fails to import, an attribute the module lacks.
Unresolvable(path) ==
    path \in {<<"MyForm">>, <<"nomodule", "forms", "MyForm">>,
              <<"broken", "forms", "MyForm">>, <<"myapp", "forms", "Missing">>}

\* C8: lookup_form_class returns BaseModelForm, raising nothing, for every
\* path that cannot be resolved, and a request handled under such a path goes
\* on with BaseModelForm as with no override: no response reports the failed
\* resolution.
C8_UnresolvedPathFallsBack ==
    /\ \A path \in FormPaths :
          Unresolvable(path) =>
              lookup_form_class(path) = [raised |-> None, cls |-> "BaseModelForm"]
    /\ (/\ Unresolvable(formPath)
        /\ pc[1] \in {"build_form", "validate", "save", "rebind", "render", "done"}
        /\ field_name[1] \notin {None, ""}) =>
           /\ BaseFormClass[1] = "BaseModelForm"
           /\ form[1].cls \in {None, "BaseModelForm"}

\* C8 witness: under an override path naming a missing attribute a request was
\* validated with BaseModelForm, written and rendered.
C8_Witness ==
    /\ formPath = <<"myapp", "forms", "Missing">>
    /\ pc[1] = "done"
    /\ form[1].cls = "BaseModelForm"
    /\ response[1].body.rendered
    /\ response[1].body.css_class = "valid-value"

\* C10: two validated requests for the same column both end in success, and
\* the column holds the value of the request that wrote last.
C10_LastWriteWins ==
    (/\ pc[1] = "done" /\ pc[2] = "done"
     /\ Validates(1) /\ Validates(2)
     /\ field_name[1] = field_name[2]) =>
        /\ \A r \in Reqs :
              /\ response[r].status = 200
              /\ response[r].exc = None
              /\ response[r].body.css_class = "valid-value"
              /\ response[r].body.errors = {}
        /\ Len(writeOrder) = 2
        /\ store[StoredPk][field_name[1]] = Submitted(writeOrder[2])

\* C10 witness: request 2 wrote first, request 1 last, and request 1's value is
\* stored although request 2 was answered after it.
C10_Witness ==
    /\ pc[1] = "done" /\ pc[2] = "done"
    /\ Validates(1) /\ Validates(2)
    /\ field_name[1] = field_name[2]
    /\ writeOrder = <<2, 1>>
    /\ store[StoredPk][field_name[1]] = Submitted(1)
    /\ Submitted(1) # Submitted(2)

----------------------------------------------------------------------------
(* Properties of BaseModelForm.__init__ *)

SixAttrs ==
    {"hx-post", "hx-trigger", "hx-target", "hx-swap", "hx-include", "hx-indicator"}

\* The trigger the documentation gives each kind of widget.
DocumentedTrigger(widget) ==
    CASE widget \in {"Select", "NullBooleanSelect", "SelectMultiple"} -> "change"
      [] widget = "CheckboxInput" -> "change"
      [] widget = "Textarea" -> "blur"
      [] OTHER -> "change delay:500ms"

\* C9: after __init__, a hidden-input widget has none of the six hx-*
\* attributes; every other widget has all six, with the trigger documented for
\* its kind and its own field's container as the target.
C9_WidgetsDecorated ==
    (fields # <<>> /\ fpc > Len(fields)) =>
        \A i \in 1..Len(fields) :
            IF fields[i].widget \in {"HiddenInput", "MultipleHiddenInput"}
            THEN DOMAIN fields[i].attrs \cap SixAttrs = {}
            ELSE /\ SixAttrs \subseteq DOMAIN fields[i].attrs
                 /\ fields[i].attrs["hx-trigger"] =
                        <<DocumentedTrigger(fields[i].widget)>>
                 /\ fields[i].attrs["hx-target"] =
                        <<"#field-", fields[i].name, "-container">>

\* C9 witness: a form with a multi-line text field and a selection field has
\* been decorated, its hidden metadata left bare.
C9_Witness ==
    /\ Len(fields) = 5 /\ fpc > Len(fields)
    /\ fields[1].widget = "Textarea"
    /\ fields[1].attrs["hx-trigger"] = <<"blur">>
    /\ fields[2].widget = "Select"
    /\ fields[2].attrs["hx-trigger"] = <<"change">>
    /\ fields[2].attrs["hx-target"] = <<"#field-", "body", "-container">>
    /\ DOMAIN fields[3].attrs = {}

====
